---- MODULE Spec2Model ----
(***************************************************************************)
(* A model of the TimeSphere simulation engine (engine/timesphere.py), its *)
(* state objects (engine/state.py), the score formula                      *)
(* (epiphany_engine/axiom/core_equation.py) and the extension registry     *)
(* (extensions/registry.py, extensions/base.py, extensions/loader.py).     *)
(*                                                                         *)
(* Spec and FairSpec are the engine under one caller, RegSpec is the       *)
(* registry under one caller, ConcSpec is the registry under callers that  *)
(* run at the same time, TrendSpec is analyze_trends on any history,       *)
(* FnSpec is a single call of the library, McpSpec is the loop of the MCP  *)
(* server (mcp/server.py) over its input lines.                            *)
(*                                                                         *)
(* Numbers are fixed point: the integer Unit stands for the float 1.0, so  *)
(* an input of k stands for k / Unit.  A product of n inputs is carried at *)
(* scale Unit^n; a quotient is carried as a [num, den] pair.               *)
(***************************************************************************)
EXTENDS Integers, Sequences, FiniteSets, TLC

\* The fixed-point image of 1.0, the upper clamp of A, B, C, X, Y.
Unit == 4
Half == Unit \div 2

\* Bounds of the model: API calls per engine, and the largest N of simulate(N).
MaxOps == 3
MaxSteps == 3
\* Calls one caller makes on the registry; callers running at the same time
\* and the calls each of them makes.
MaxRegOps == 4
NumCallers == 2
MaxCallerOps == 2
\* The longest history handed to analyze_trends.
MaxRecords == 4
\* The most lines of stdin the MCP server is given.
MaxLines == 3

VARIABLES
    initial_state,   \* self.initial_state
    update_rules,    \* self.update_rules: a dict, kept in insertion order
    event_handlers,  \* self.event_handlers
    history,         \* self.history
    pc,              \* "idle", or "loop" while simulate is on the stack
    steps,           \* simulate's argument steps
    record_history,  \* simulate's argument record_history
    loc_history,     \* simulate's local history
    current_state,   \* simulate's local current_state
    step_num,        \* simulate's loop variable (0 before the first iteration)
    result,          \* what the last call returned to the caller
    exc,             \* what the last call raised to the caller
    last_op,         \* the last API call made
    ops,             \* number of API calls made so far
    registrations,   \* log of the add_update_rule calls: their arguments
    calls,           \* log of the rule and handler invocations of the current run
    trajectory,      \* every TimeStep the current run produced, kept or not
    extensions,          \* registry._extensions: a dict, kept in insertion order
    extensions_by_type,  \* registry._extensions_by_type: class name -> list
    enabled,             \* the attribute enabled of every extension object
    initialized,         \* how often initialize() of every extension object ran
    reg_log,             \* log of the registry calls: call, argument, fault
    callers,             \* the frame of every concurrent caller of the registry
    call,            \* a call of a library function: its name and arguments
    ret,             \* what that call returned or raised
    stdin,           \* the lines the MCP server is given
    stdout,          \* the lines the MCP server has written
    line_no,         \* how many lines of stdin serve() has taken
    payload,         \* serve's local variable payload
    server           \* "off", "running", "ended" at end of input, or "crashed"

engine_vars == <<initial_state, update_rules, event_handlers, history, pc,
                 steps, record_history, loc_history, current_state, step_num,
                 result, exc, last_op, ops, registrations, calls, trajectory>>
registry_vars == <<extensions, extensions_by_type, enabled, initialized>>
fn_vars == <<call, ret>>
mcp_vars == <<stdin, stdout, line_no, payload, server>>
outside_engine == <<registry_vars, reg_log, callers, fn_vars, mcp_vars>>
outside_registry == <<engine_vars, fn_vars, mcp_vars>>
vars == <<engine_vars, registry_vars, reg_log, callers, fn_vars, mcp_vars>>

\* No library function has been called, and no MCP server runs.
NoCall == [fn |-> "none"]
NoReturn == [fault |-> "none"]
Unbound == [bound |-> FALSE]
NothingElseRuns ==
    /\ call = NoCall
    /\ ret = NoReturn
    /\ stdin = <<>>
    /\ stdout = <<>>
    /\ line_no = 0
    /\ payload = Unbound
    /\ server = "off"

Min(a, b) == IF a <= b THEN a ELSE b
Max(a, b) == IF a >= b THEN a ELSE b

(***************************************************************************)
(* engine/state.py                                                         *)
(***************************************************************************)
Fields == {"A", "B", "C", "X", "Y", "Z", "E_n", "F_n"}

\* AxiomInputs(**d): one field per keyword.
AxiomInputs(d) == [f \in Fields |-> d[f]]

\* AxiomInputs.to_dict: asdict copies every field into a fresh dict.
to_dict(inputs) == [f \in Fields |-> inputs[f]]

SystemState(step, inputs, metadata) ==
    [step |-> step, inputs |-> inputs, metadata |-> metadata]

IntelligenceSnapshot(step, score, components) ==
    [step |-> step, score |-> score, components |-> components]

TimeStep(step, state, intelligence, events) ==
    [step |-> step, state |-> state, intelligence |-> intelligence,
     events |-> events]

(***************************************************************************)
(* axiom/core_equation.py                                                  *)
(***************************************************************************)
RECURSIVE fibonacci(_)
fibonacci(n) == IF n = 0 THEN 0 ELSE IF n = 1 THEN 1
                ELSE fibonacci(n - 1) + fibonacci(n - 2)

\* Clamp with clamp_to_unit off: every value passes as it is.
Clamp_off(d) == [f \in Fields |-> d[f]]

\* The clamp_to_unit branch: A/B/C/X/Y to [0,1], Z and E_n >= 0, F_n >= -1.
Clamp(d) ==
    [f \in Fields |->
        IF f \in {"A", "B", "C", "X", "Y"} THEN Max(0, Min(Unit, d[f]))
        ELSE IF f \in {"Z", "E_n"} THEN Max(0, d[f])
        ELSE Max(0 - Unit, d[f])]

\* compute_intelligence(**d, return_components=True), clamp_to_unit on.
\* score is at scale Unit^8, ABC and XYZ at Unit^3, E_factor at Unit^2.
compute_intelligence(d) ==
    LET c == Clamp(d)
        ABC == c["A"] * c["B"] * c["C"]
        XYZ == c["X"] * c["Y"] * c["Z"]
        E_factor == c["E_n"] * (Unit + c["F_n"])
    IN  [score |-> E_factor * XYZ * ABC,
         components |-> [A |-> c["A"], B |-> c["B"], C |-> c["C"], ABC |-> ABC,
                         X |-> c["X"], Y |-> c["Y"], Z |-> c["Z"], XYZ |-> XYZ,
                         E_n |-> c["E_n"], F_n |-> c["F_n"],
                         E_factor |-> E_factor]]

(***************************************************************************)
(* axiom/core_equation.py on every value a caller can pass: a finite       *)
(* number (fixed point), nan, inf, -inf, or None for what is not a number. *)
(***************************************************************************)
Num(v) == [k |-> "num", v |-> v]
NaN == [k |-> "nan"]
PosInf == [k |-> "inf"]
NegInf == [k |-> "ninf"]
None == [k |-> "None"]
\* isinstance(x, (int, float)): nan and the infinities are floats.
IsNumeric(x) == x.k # "None"
\* math.isfinite(x)
IsFinite(x) == x.k = "num"

\* a < b on floats: every comparison with nan is false.
Lt(a, b) ==
    IF a.k = "nan" \/ b.k = "nan" THEN FALSE
    ELSE IF a.k = "ninf" THEN b.k # "ninf"
    ELSE IF a.k = "inf" THEN FALSE
    ELSE IF b.k = "inf" THEN TRUE
    ELSE IF b.k = "ninf" THEN FALSE
    ELSE a.v < b.v
\* min(a, b) and max(a, b) of Python: b only if it is strictly beyond a.
PyMin(a, b) == IF Lt(b, a) THEN b ELSE a
PyMax(a, b) == IF Lt(a, b) THEN b ELSE a
\* The sign of a float that is not nan.
Sign(a) == IF a.k = "inf" THEN 1 ELSE IF a.k = "ninf" THEN 0 - 1
           ELSE IF a.v > 0 THEN 1 ELSE IF a.v < 0 THEN 0 - 1 ELSE 0
\* a * b and a + b on floats
FMul(a, b) ==
    IF a.k = "nan" \/ b.k = "nan" THEN NaN
    ELSE IF a.k = "num" /\ b.k = "num" THEN Num(a.v * b.v)
    ELSE IF Sign(a) * Sign(b) = 0 THEN NaN
    ELSE IF Sign(a) * Sign(b) > 0 THEN PosInf ELSE NegInf
FAdd(a, b) ==
    IF a.k = "nan" \/ b.k = "nan" THEN NaN
    ELSE IF a.k = "num" /\ b.k = "num" THEN Num(a.v + b.v)
    ELSE IF a.k = "num" THEN b
    ELSE IF b.k = "num" \/ a = b THEN a
    ELSE NaN

\* The keyword arguments in the order of dict(A=A, ..., F_n=F_n), line 91.
FieldOrder == <<"A", "B", "C", "X", "Y", "Z", "E_n", "F_n">>
\* The first field the loop of lines 94-96 meets that fails its test.
FirstFailing(d, test) ==
    LET Passes(x) == IF test = "finite" THEN IsFinite(x) ELSE IsNumeric(x)
        bad == {i \in DOMAIN FieldOrder : ~Passes(d[FieldOrder[i]])}
    IN  IF bad = {} THEN "none"
        ELSE FieldOrder[CHOOSE i \in bad : \A j \in bad : i <= j]

\* Lines 98-108 on floats.
ClampFloat(d) ==
    [f \in Fields |->
        IF f \in {"A", "B", "C", "X", "Y"}
        THEN PyMax(Num(0), PyMin(Num(Unit), d[f]))
        ELSE IF f \in {"Z", "E_n"} THEN PyMax(Num(0), d[f])
        ELSE PyMax(Num(0 - Unit), d[f])]

\* Lines 112-143: the products and what is returned.
Product(c) ==
    LET ABC == FMul(FMul(c["A"], c["B"]), c["C"])
        XYZ == FMul(FMul(c["X"], c["Y"]), c["Z"])
        E_factor == FMul(c["E_n"], FAdd(Num(Unit), c["F_n"]))
    IN  [fault |-> "none", field |-> "none",
         score |-> FMul(FMul(E_factor, XYZ), ABC),
         components |-> [A |-> c["A"], B |-> c["B"], C |-> c["C"], ABC |-> ABC,
                         X |-> c["X"], Y |-> c["Y"], Z |-> c["Z"], XYZ |-> XYZ,
                         E_n |-> c["E_n"], F_n |-> c["F_n"],
                         E_factor |-> E_factor]]

\* compute_intelligence(**d, validate=, clamp_to_unit=, return_components=True),
\* lines 60-143.  Without validate, float(None) raises a TypeError that
\* names no field.
compute_intelligence_of(d, validate, clamp_to_unit) ==
    IF validate /\ FirstFailing(d, "numeric") # "none"
    THEN [fault |-> "TypeError", field |-> FirstFailing(d, "numeric")]
    ELSE IF FirstFailing(d, "numeric") # "none"
    THEN [fault |-> "TypeError", field |-> "none"]
    ELSE Product(IF clamp_to_unit THEN ClampFloat(d) ELSE d)

(***************************************************************************)
(* Rules and handlers a caller installs                                    *)
(***************************************************************************)
NoException == [type |-> "none", msg |-> ""]
RuleException == [type |-> "RuntimeError", msg |-> "rule failed"]
HandlerException == [type |-> "RuntimeError", msg |-> "handler failed"]
NamingException == [type |-> "ValueError", msg |-> "Variable must be one of"]

\* UpdateRules.linear_growth(rate, max_val, variable=v)
linear_growth(rate, max_val, v) ==
    [kind |-> "linear_growth", rate |-> rate, max_val |-> max_val, variable |-> v]
\* UpdateRules.fibonacci_rule()
fibonacci_rule == [kind |-> "fibonacci_rule"]
\* A caller's rule that raises when called for step k and returns 0.5 otherwise.
failing_rule(k) == [kind |-> "failing", at |-> k]

\* UpdateRules.decay(rate, min_val, variable=v)
decay(rate, min_val, v) ==
    [kind |-> "decay", rate |-> rate, min_val |-> min_val, variable |-> v]

\* Whether rule(state, step) raises.
RuleRaises(rule, state, k) == rule.kind = "failing" /\ k = rule.at

\* EvalRule with linear_growth and decay reading A whatever their variable.
EvalRule_always_A(rule, state, k) ==
    IF rule.kind = "linear_growth"
    THEN Min(rule.max_val, Max(0, state.inputs["A"] + rule.rate))
    ELSE IF rule.kind = "decay"
    THEN Max(rule.min_val, (state.inputs["A"] * (Unit - rule.rate)) \div Unit)
    ELSE IF rule.kind = "fibonacci_rule" THEN Unit * fibonacci(k)
    ELSE Half

\* rule(state, step) when it returns.  decay's product current * (1 - rate)
\* is brought back to the scale Unit; the values used divide exactly.
EvalRule(rule, state, k) ==
    IF rule.kind = "linear_growth"
    THEN LET inputs == to_dict(state.inputs)
             current == IF rule.variable \in DOMAIN inputs
                        THEN inputs[rule.variable] ELSE 0
         IN  Min(rule.max_val, Max(0, current + rule.rate))
    ELSE IF rule.kind = "decay"
    THEN LET inputs == to_dict(state.inputs)
             current == IF rule.variable \in DOMAIN inputs
                        THEN inputs[rule.variable] ELSE Unit
         IN  Max(rule.min_val, (current * (Unit - rule.rate)) \div Unit)
    ELSE IF rule.kind = "fibonacci_rule" THEN Unit * fibonacci(k)
    ELSE Half

\* The rules and the variable names the model's callers register.
Rules == {linear_growth(Half, Unit, "A"), linear_growth(Half, Unit, "B"),
          fibonacci_rule, failing_rule(2)}
RuleVariables == {"A", "B", "Q"}

\* Handlers of a caller: an event at one step, an event while A is at or above
\* a level (and "" below it), and a handler that raises at one step.
at_step(k) == [kind |-> "at_step", arg |-> k]
threshold(v) == [kind |-> "threshold", arg |-> v]
failing_handler(k) == [kind |-> "failing", arg |-> k]

\* Whether handler(state, step) raises.
HandlerRaises(h, state, k) == h.kind = "failing" /\ k = h.arg

\* handler(state, step) when it returns: the event text, "" or "None".
EvalHandler(h, state, k) ==
    IF h.kind = "at_step"
    THEN IF k = h.arg THEN "Test event" ELSE "None"
    ELSE IF h.kind = "threshold"
    THEN IF state.inputs["A"] >= h.arg THEN "A reached threshold" ELSE ""
    ELSE "None"

Handlers == {at_step(2), threshold(Half), failing_handler(2)}

\* Python truth of a handler's result: None and "" are falsy.
Truthy(event) == event \notin {"None", ""}

(***************************************************************************)
(* engine/timesphere.py: TimeSphere                                        *)
(***************************************************************************)
\* valid_vars of add_update_rule
valid_vars == {"A", "B", "C", "X", "Y", "Z", "E_n", "F_n"}

Binding(variable, rule) == [var |-> variable, rule |-> rule]

\* SetRule for a list of bindings in place of a dict: always appends.
SetRule_appending(rules, variable, rule) ==
    Append(rules, Binding(variable, rule))

\* self.update_rules[variable] = rule: a present key keeps its place and gets
\* the new value, an absent key is added at the end.
SetRule(rules, variable, rule) ==
    IF \E i \in DOMAIN rules : rules[i].var = variable
    THEN [i \in DOMAIN rules |->
            IF rules[i].var = variable THEN Binding(variable, rule) ELSE rules[i]]
    ELSE Append(rules, Binding(variable, rule))

\* add_update_rule with the assignment made before the check of the name.
add_update_rule_store_first(rules, variable, rule) ==
    [rules |-> SetRule(rules, variable, rule),
     exc |-> IF variable \notin {"A", "B", "C", "X", "Y", "Z", "E_n", "F_n"}
             THEN NamingException ELSE NoException]

\* add_update_rule(variable, rule): the bindings it leaves and what it raises.
add_update_rule(rules, variable, rule) ==
    IF variable \notin valid_vars
    THEN [rules |-> rules, exc |-> NamingException]
    ELSE [rules |-> SetRule(rules, variable, rule), exc |-> NoException]

\* add_event_handler(handler)
add_event_handler(handlers, handler) == Append(handlers, handler)

\* Index of the first TRUE of a sequence of booleans, 0 when there is none.
FirstTrue(flags) ==
    IF \E i \in DOMAIN flags : flags[i]
    THEN CHOOSE i \in DOMAIN flags : flags[i] /\ \A j \in 1..(i - 1) : ~flags[j]
    ELSE 0

\* The first rule of the loop of lines 136-137 that raises, 0 when none does.
FirstRuleRaising(rules, cur_state, step_no) ==
    FirstTrue([i \in DOMAIN rules |-> RuleRaises(rules[i].rule, cur_state, step_no)])

\* The first handler of the loop of lines 160-163 that raises, 0 when none does.
FirstHandlerRaising(handlers, state, step_no) ==
    FirstTrue([i \in DOMAIN handlers |-> HandlerRaises(handlers[i], state, step_no)])

\* RulesApplied with each rule called on the values the earlier rules of the
\* same step already wrote.
RECURSIVE RulesApplied_sequential(_, _, _, _)
RulesApplied_sequential(rules, cur_state, step_no, n) ==
    IF n = 0 THEN to_dict(cur_state.inputs)
    ELSE LET d == RulesApplied_sequential(rules, cur_state, step_no, n - 1)
             seen == [cur_state EXCEPT !.inputs = AxiomInputs(d)]
             value == EvalRule(rules[n].rule, seen, step_no)
         IN  [f \in DOMAIN d \cup {rules[n].var} |->
                 IF f = rules[n].var THEN value ELSE d[f]]

\* RulesApplied with every rule's value written to A, whatever its variable.
RECURSIVE RulesApplied_hardcoded(_, _, _, _)
RulesApplied_hardcoded(rules, cur_state, step_no, n) ==
    IF n = 0 THEN to_dict(cur_state.inputs)
    ELSE LET d == RulesApplied_hardcoded(rules, cur_state, step_no, n - 1)
             value == EvalRule(rules[n].rule, cur_state, step_no)
         IN  [f \in DOMAIN d |-> IF f = "A" THEN value ELSE d[f]]

\* step, lines 134-137: the dict after the first n rules of the loop; every
\* rule is called with cur_state, the state step() was given.
RECURSIVE RulesApplied(_, _, _, _)
RulesApplied(rules, cur_state, step_no, n) ==
    IF n = 0 THEN to_dict(cur_state.inputs)
    ELSE LET d == RulesApplied(rules, cur_state, step_no, n - 1)
             value == EvalRule(rules[n].rule, cur_state, step_no)
         IN  [f \in DOMAIN d \cup {rules[n].var} |->
                 IF f = rules[n].var THEN value ELSE d[f]]

new_inputs_dict(rules, cur_state, step_no) ==
    RulesApplied(rules, cur_state, step_no, Len(rules))

\* step, lines 139-152: the new state.
new_state(rules, cur_state, step_no) ==
    SystemState(step_no,
                AxiomInputs(new_inputs_dict(rules, cur_state, step_no)),
                cur_state.metadata)

\* step, lines 159-163: the events of the handlers, in the order of the list.
RECURSIVE HandlerEvents(_, _, _, _)
HandlerEvents(handlers, state, step_no, n) ==
    IF n = 0 THEN <<>>
    ELSE LET before == HandlerEvents(handlers, state, step_no, n - 1)
             event == EvalHandler(handlers[n], state, step_no)
         IN  IF Truthy(event) THEN Append(before, event) ELSE before

events_of(handlers, state, step_no) ==
    HandlerEvents(handlers, state, step_no, Len(handlers))

\* step_raises with the exception caught and another one raised in its place.
step_raises_wrapped(rules, handlers, cur_state, step_no) ==
    IF FirstRuleRaising(rules, cur_state, step_no) # 0
       \/ FirstHandlerRaising(handlers, new_state(rules, cur_state, step_no),
                              step_no) # 0
    THEN [type |-> "RuntimeError", msg |-> "step failed"]
    ELSE NoException

\* What step(cur_state, step_no) raises: the exception of the first rule
\* that raises, else of the first handler that raises, else nothing.
step_raises(rules, handlers, cur_state, step_no) ==
    IF FirstRuleRaising(rules, cur_state, step_no) # 0 THEN RuleException
    ELSE IF FirstHandlerRaising(handlers, new_state(rules, cur_state, step_no),
                                step_no) # 0
    THEN HandlerException
    ELSE NoException

\* step with the score taken from the state step() received, not the new one.
step_scoring_previous(rules, handlers, cur_state, step_no) ==
    LET ns == new_state(rules, cur_state, step_no)
        ci == compute_intelligence(to_dict(cur_state.inputs))
    IN  TimeStep(step_no, ns,
                 IntelligenceSnapshot(step_no, ci.score, ci.components),
                 events_of(handlers, ns, step_no))

\* step with the handlers given the state step() received, not the new one.
step_handlers_on_old_state(rules, handlers, cur_state, step_no) ==
    LET ns == new_state(rules, cur_state, step_no)
        ci == compute_intelligence(to_dict(ns.inputs))
    IN  TimeStep(step_no, ns,
                 IntelligenceSnapshot(step_no, ci.score, ci.components),
                 events_of(handlers, cur_state, step_no))

\* What step(cur_state, step_no) returns when nothing raises.
step(rules, handlers, cur_state, step_no) ==
    LET ns == new_state(rules, cur_state, step_no)
        ci == compute_intelligence(to_dict(ns.inputs))
    IN  TimeStep(step_no, ns,
                 IntelligenceSnapshot(step_no, ci.score, ci.components),
                 events_of(handlers, ns, step_no))

\* The calls step() makes, in order: the rules up to the first that raises,
\* then (when no rule raised) the handlers up to the first that raises.
Call(what, idx, name, state, step_no) ==
    [what |-> what, idx |-> idx, name |-> name, state |-> state, step |-> step_no]

step_calls(rules, handlers, cur_state, step_no) ==
    LET r == FirstRuleRaising(rules, cur_state, step_no)
        ns == new_state(rules, cur_state, step_no)
        h == IF r # 0 THEN 0 ELSE FirstHandlerRaising(handlers, ns, step_no)
        nr == IF r # 0 THEN r ELSE Len(rules)
        nh == IF r # 0 THEN 0 ELSE IF h # 0 THEN h ELSE Len(handlers)
        rule_calls == [i \in 1..nr |->
                         Call("rule", i, rules[i].var, cur_state, step_no)]
        handler_calls == [i \in 1..nh |->
                            Call("handler", i, handlers[i].kind, ns, step_no)]
    IN  rule_calls \o handler_calls

\* initial_timestep with the handlers run on the initial state as well.
initial_timestep_with_handlers(state) ==
    LET ci == compute_intelligence(to_dict(state.inputs))
    IN  TimeStep(0, state, IntelligenceSnapshot(0, ci.score, ci.components),
                 <<"Simulation started">> \o events_of(event_handlers, state, 0))

\* simulate, lines 192-203: the record of step 0.
initial_timestep(state) ==
    LET ci == compute_intelligence(to_dict(state.inputs))
    IN  TimeStep(0, state, IntelligenceSnapshot(0, ci.score, ci.components),
                 <<"Simulation started">>)

\* record with the test of record_history inverted.
record_inverted(hist, timestep, keep) ==
    IF keep THEN hist ELSE Append(hist, timestep)

\* simulate, lines 209-210
record(hist, timestep, keep) == IF keep THEN Append(hist, timestep) ELSE hist

RECURSIVE SumSeq(_)
SumSeq(s) == IF s = <<>> THEN 0 ELSE s[1] + SumSeq(Tail(s))
MaxSeq(s) == CHOOSE x \in {s[i] : i \in DOMAIN s} : \A i \in DOMAIN s : s[i] <= x
MinSeq(s) == CHOOSE x \in {s[i] : i \in DOMAIN s} : \A i \in DOMAIN s : x <= s[i]

\* simulate, lines 214-227
summarize(n_steps, hist) ==
    LET intelligence_scores == [i \in DOMAIN hist |-> hist[i].intelligence.score]
        first == intelligence_scores[1]
        last == intelligence_scores[Len(intelligence_scores)]
    IN  [total_steps |-> n_steps,
         initial_intelligence |-> first,
         final_intelligence |-> last,
         max_intelligence |-> MaxSeq(intelligence_scores),
         min_intelligence |-> MinSeq(intelligence_scores),
         avg_intelligence |-> [num |-> SumSeq(intelligence_scores),
                               den |-> Len(intelligence_scores)],
         growth_rate |-> IF first # 0
                         THEN [kind |-> "ratio", num |-> last - first, den |-> first]
                         ELSE [kind |-> "inf", num |-> 0, den |-> 1]]

\* s[a..b], as the slices scores[:h] and scores[h:] are taken.
Slice(s, a, b) == [i \in 1..(b - a + 1) |-> s[a + i - 1]]
Abs(x) == IF x >= 0 THEN x ELSE 0 - x

\* The trend of lines 249-260 with >= and <= for > and <.
trend_of_inclusive(scores) ==
    IF Len(scores) < 3 THEN "insufficient_data"
    ELSE LET h == Len(scores) \div 2
             first_sum == SumSeq(Slice(scores, 1, h))
             second_sum == SumSeq(Slice(scores, h + 1, Len(scores)))
             first_n == h
             second_n == Len(scores) - h
         IN  IF 10 * second_sum * first_n >= 11 * first_sum * second_n
             THEN "accelerating_growth"
             ELSE IF 10 * second_sum * first_n <= 9 * first_sum * second_n
             THEN "declining"
             ELSE "stable"

\* analyze_trends, lines 249-260.  The two means are first_sum / first_n and
\* second_sum / second_n; second > first * 1.1 and second < first * 0.9 are
\* compared after multiplying through by 10 * first_n * second_n.
trend_of(scores) ==
    IF Len(scores) < 3 THEN "insufficient_data"
    ELSE LET h == Len(scores) \div 2
             first_sum == SumSeq(Slice(scores, 1, h))
             second_sum == SumSeq(Slice(scores, h + 1, Len(scores)))
             first_n == h
             second_n == Len(scores) - h
         IN  IF 10 * second_sum * first_n > 11 * first_sum * second_n
             THEN "accelerating_growth"
             ELSE IF 10 * second_sum * first_n < 9 * first_sum * second_n
             THEN "declining"
             ELSE "stable"

\* analyze_trends, lines 262-270: the steps at which the change of the score
\* turns by more than a tenth of the score.
inflection_points(hist) ==
    LET scores == [i \in DOMAIN hist |-> hist[i].intelligence.score]
        Turns(i) ==
            10 * Abs((scores[i + 1] - scores[i]) - (scores[i] - scores[i - 1]))
               > scores[i]
        inner == [i \in 1..(Len(hist) - 2) |-> i + 1]
        at == SelectSeq(inner, Turns)
    IN  [j \in DOMAIN at |->
            [step |-> hist[at[j]].step, score |-> scores[at[j]],
             type |-> "significant_change"]]

\* analyze_trends, lines 232-277
analyze_trends(hist) ==
    IF hist = <<>> THEN [error |-> "No simulation history available"]
    ELSE LET scores == [i \in DOMAIN hist |-> hist[i].intelligence.score]
         IN  [trend |-> trend_of(scores),
              inflection_points |-> inflection_points(hist),
              total_events |-> SumSeq([i \in DOMAIN hist |-> Len(hist[i].events)]),
              score_volatility |-> MaxSeq(scores) - MinSeq(scores)]

SimulationResult(hist, summary) == [steps |-> hist, summary |-> summary]

NoSummary == summarize(0 - 1, <<[intelligence |-> [score |-> 0]]>>)
NoResult == SimulationResult(<<>>, NoSummary)

(***************************************************************************)
(* extensions/base.py: the extension objects of a caller                   *)
(***************************************************************************)
\* The abstract kinds of base.py and the concrete classes a caller defines.
Kinds == {"UpdateRuleExtension", "EventHandlerExtension"}
Classes == {"MomentumUpdateRule", "ThresholdAlertHandler"}
\* class MomentumUpdateRule(UpdateRuleExtension), and so on.
BaseOf(cls) == IF cls = "MomentumUpdateRule" THEN "UpdateRuleExtension"
               ELSE "EventHandlerExtension"
\* issubclass(cls, K) for a class or kind name K.
IsSubclass(cls, K) == K = cls \/ K = BaseOf(cls)

\* The extension objects: two of one class with different names, and one of
\* another class that has the name of the first.  initialize() of m2 raises.
Instances == {"m1", "m2", "h1"}
ExtName(x) == IF x = "m2" THEN "beta" ELSE "alpha"
ClassOf(x) == IF x = "h1" THEN "ThresholdAlertHandler" ELSE "MomentumUpdateRule"
InitRaises(x) == x = "m2"
Names == {ExtName(x) : x \in Instances}

DuplicateError == [type |-> "ValueError", msg |-> "is already registered"]
\* KeyError(f"Extension '{name}' not found ..."): the text holds the name.
NotRegistered(name) ==
    [type |-> "KeyError", msg |-> "Extension not found", key |-> name]
InitError == [type |-> "RuntimeError", msg |-> "initialize failed"]
NotInList == [type |-> "ValueError", msg |-> "list.remove(x): x not in list"]
MissingKey == [type |-> "KeyError", msg |-> ""]

(***************************************************************************)
(* extensions/registry.py: ExtensionRegistry                               *)
(***************************************************************************)
\* name in self._extensions
Has(exts, name) == \E i \in DOMAIN exts : exts[i].name = name
\* self._extensions[name], for a name that is present
Lookup(exts, name) == exts[CHOOSE i \in DOMAIN exts : exts[i].name = name].ext
\* self._extensions[name] = x: a present key keeps its place.
DictSet(exts, name, x) ==
    IF Has(exts, name)
    THEN [i \in DOMAIN exts |->
            IF exts[i].name = name THEN [name |-> name, ext |-> x] ELSE exts[i]]
    ELSE Append(exts, [name |-> name, ext |-> x])
\* del self._extensions[name], for a name that is present
DictDel(exts, name) ==
    LET Other(e) == e.name # name IN SelectSeq(exts, Other)

\* lines 44-46 with the class name as given
TypeAppend(by_type, cls, x) ==
    IF cls \in DOMAIN by_type
    THEN [by_type EXCEPT ![cls] = Append(@, x)]
    ELSE [c \in DOMAIN by_type \cup {cls} |->
            IF c = cls THEN <<x>> ELSE by_type[c]]
\* list.remove(x): the first occurrence goes.
ListRemove(lst, x) ==
    LET i == CHOOSE j \in DOMAIN lst :
                 lst[j] = x /\ \A k \in 1..(j - 1) : lst[k] # x
    IN  [j \in 1..(Len(lst) - 1) |-> IF j < i THEN lst[j] ELSE lst[j + 1]]
\* lines 68-71, for an x that is in the list of its class
TypeRemove(by_type, cls, x) ==
    IF cls \notin DOMAIN by_type THEN by_type
    ELSE LET rest == ListRemove(by_type[cls], x)
         IN  IF rest = <<>>
             THEN [c \in DOMAIN by_type \ {cls} |-> by_type[c]]
             ELSE [by_type EXCEPT ![cls] = rest]

\* The registry and the objects it refers to, as one value.
Registry ==
    [extensions |-> extensions, extensions_by_type |-> extensions_by_type,
     enabled |-> enabled, initialized |-> initialized, exc |-> NoException]

\* extension.initialize(), line 49: the hook runs, and may raise.
initialize(reg, x) ==
    [reg EXCEPT !.initialized[x] = @ + 1,
                !.exc = IF InitRaises(x) THEN InitError ELSE NoException]

\* lines 40-46: the extension goes into both indices.
store(reg, x) ==
    [reg EXCEPT !.extensions = DictSet(@, ExtName(x), x),
                !.extensions_by_type = TypeAppend(@, ClassOf(x), x)]


\* register without the test of line 33.
register_overwriting(reg, x) == initialize(store(reg, x), x)

\* register, lines 23-49
register(reg, x) ==
    IF Has(reg.extensions, ExtName(x))
    THEN [reg EXCEPT !.exc = DuplicateError]
    ELSE initialize(store(reg, x), x)

\* unregister that forgets the index by type.
unregister_name_only(reg, name) ==
    IF ~Has(reg.extensions, name)
    THEN [reg EXCEPT !.exc = NotRegistered(name)]
    ELSE [reg EXCEPT !.extensions = DictDel(@, name)]

\* unregister, lines 51-74
unregister(reg, name) ==
    IF ~Has(reg.extensions, name)
    THEN [reg EXCEPT !.exc = NotRegistered(name)]
    ELSE LET x == Lookup(reg.extensions, name)
         IN  [reg EXCEPT
                 !.extensions_by_type = TypeRemove(@, ClassOf(x), x),
                 !.extensions = DictDel(@, name)]

\* get, lines 76-86: None for a name that is absent
get(reg, name) ==
    IF Has(reg.extensions, name) THEN Lookup(reg.extensions, name) ELSE "None"

\* get_by_type, lines 88-99: K is extension_type.__name__
get_by_type(reg, K) ==
    IF K \in DOMAIN reg.extensions_by_type
    THEN reg.extensions_by_type[K] ELSE <<>>

\* list_all, lines 101-108
list_all(reg) == [i \in DOMAIN reg.extensions |-> reg.extensions[i].ext]

\* list_enabled without the test of ext.enabled.
list_enabled_unfiltered(reg) == list_all(reg)

\* list_enabled, lines 110-117
list_enabled(reg) ==
    LET IsEnabled(x) == reg.enabled[x] IN SelectSeq(list_all(reg), IsEnabled)

\* enable that runs the hook of the extension again.
enable_initializing(reg, name) ==
    IF ~Has(reg.extensions, name)
    THEN [reg EXCEPT !.exc = NotRegistered(name)]
    ELSE LET x == Lookup(reg.extensions, name)
         IN  [initialize(reg, x) EXCEPT !.enabled[x] = TRUE,
                                        !.exc = NoException]

\* enable, lines 119-131, with BaseExtension.enable
enable(reg, name) ==
    IF ~Has(reg.extensions, name)
    THEN [reg EXCEPT !.exc = NotRegistered(name)]
    ELSE [reg EXCEPT !.enabled[Lookup(reg.extensions, name)] = TRUE]

\* disable that passes over a name that is absent.
disable_silent(reg, name) ==
    IF ~Has(reg.extensions, name) THEN reg
    ELSE [reg EXCEPT !.enabled[Lookup(reg.extensions, name)] = FALSE]

\* disable, lines 133-145, with BaseExtension.disable
disable(reg, name) ==
    IF ~Has(reg.extensions, name)
    THEN [reg EXCEPT !.exc = NotRegistered(name)]
    ELSE [reg EXCEPT !.enabled[Lookup(reg.extensions, name)] = FALSE]

\* A dict without keys.
EmptyDict == [c \in {} |-> <<>>]

\* clear that empties the index by name only.
clear_names_only(reg) == [reg EXCEPT !.extensions = <<>>]

\* clear, lines 147-150
clear(reg) ==
    [reg EXCEPT !.extensions = <<>>, !.extensions_by_type = EmptyDict]

\* loader.load_extension(cls, auto_register=True) where cls() gives x
load_extension(reg, x) == register(reg, x)

\* ExtensionRegistry.__init__, and the objects as BaseExtension.__init__
\* leaves them: enabled, and initialize() not yet called.
RegistryCreated ==
    /\ extensions = <<>>
    /\ extensions_by_type = EmptyDict
    /\ enabled = [x \in Instances |-> TRUE]
    /\ initialized = [x \in Instances |-> 0]

\* The callers that use the registry at the same time, and the frame of one
\* that is not inside a call: at is the line of registry.py it stands before
\* (0 outside a call), extension is unregister's local variable, made counts
\* its calls, exc is what its last call raised.
Callers == 1..NumCallers
Returned ==
    [at |-> 0, op |-> "none", arg |-> "none", extension |-> "None",
     made |-> 0, exc |-> NoException]

(***************************************************************************)
(* The engine as a state machine                                           *)
(***************************************************************************)
InitialInputs ==
    {[A |-> a, B |-> Half, C |-> Unit, X |-> Unit, Y |-> Unit, Z |-> Unit,
      E_n |-> 2 * Unit, F_n |-> Unit] : a \in {0, Half}}

\* TimeSphere.__init__
Init ==
    /\ \E inputs \in InitialInputs :
          initial_state = SystemState(0, inputs, "scenario")
    /\ update_rules = <<>>
    /\ event_handlers = <<>>
    /\ history = <<>>
    /\ pc = "idle"
    /\ steps = 0
    /\ record_history = TRUE
    /\ loc_history = <<>>
    /\ current_state = initial_state
    /\ step_num = 0
    /\ result = NoResult
    /\ exc = NoException
    /\ last_op = "none"
    /\ ops = 0
    /\ registrations = <<>>
    /\ calls = <<>>
    /\ trajectory = <<>>
    /\ RegistryCreated
    /\ reg_log = <<>>
    /\ callers = [t \in Callers |-> Returned]
    /\ NothingElseRuns

engine_fields == <<initial_state, update_rules, event_handlers, history>>
frame == <<steps, record_history, loc_history, current_state, step_num>>

\* A call of add_update_rule(variable, rule).
AddUpdateRule ==
    /\ pc = "idle"
    /\ ops < MaxOps
    /\ \E variable \in RuleVariables, rule \in Rules :
          LET out == add_update_rule(update_rules, variable, rule)
          IN  /\ update_rules' = out.rules
              /\ exc' = out.exc
              /\ registrations' = Append(registrations, Binding(variable, rule))
    /\ result' = NoResult
    /\ last_op' = "add_update_rule"
    /\ ops' = ops + 1
    /\ UNCHANGED <<initial_state, event_handlers, history, pc, frame, calls,
                   trajectory>>
    /\ UNCHANGED outside_engine

\* A call of add_event_handler(handler).
AddEventHandler ==
    /\ pc = "idle"
    /\ ops < MaxOps
    /\ \E handler \in Handlers :
          event_handlers' = add_event_handler(event_handlers, handler)
    /\ exc' = NoException
    /\ result' = NoResult
    /\ last_op' = "add_event_handler"
    /\ ops' = ops + 1
    /\ UNCHANGED <<initial_state, update_rules, history, pc, frame,
                   registrations, calls, trajectory>>
    /\ UNCHANGED outside_engine

\* SimulateStart that resumes from the last record of the stored history.
SimulateStart_resuming ==
    /\ pc = "idle"
    /\ ops < MaxOps
    /\ \E n \in 0..MaxSteps, keep \in BOOLEAN :
          /\ steps' = n
          /\ record_history' = keep
    /\ LET from == IF history = <<>> THEN initial_state
                   ELSE history[Len(history)].state
       IN  /\ loc_history' = <<initial_timestep(from)>>
           /\ current_state' = from
           /\ trajectory' = <<initial_timestep(from)>>
    /\ step_num' = 0
    /\ pc' = "loop"
    /\ exc' = NoException
    /\ result' = NoResult
    /\ last_op' = "simulate"
    /\ ops' = ops + 1
    /\ calls' = <<>>
    /\ UNCHANGED <<engine_fields, registrations>>
    /\ UNCHANGED outside_engine

\* A call of simulate(n, keep), up to the loop (lines 187-204).
SimulateStart ==
    /\ pc = "idle"
    /\ ops < MaxOps
    /\ \E n \in 0..MaxSteps, keep \in BOOLEAN :
          /\ steps' = n
          /\ record_history' = keep
    /\ loc_history' = <<initial_timestep(initial_state)>>
    /\ current_state' = initial_state
    /\ step_num' = 0
    /\ pc' = "loop"
    /\ exc' = NoException
    /\ result' = NoResult
    /\ last_op' = "simulate"
    /\ ops' = ops + 1
    /\ calls' = <<>>
    /\ trajectory' = <<initial_timestep(initial_state)>>
    /\ UNCHANGED <<engine_fields, registrations>>
    /\ UNCHANGED outside_engine

\* One iteration of the loop (lines 207-211) in which step() returns.
SimulateStep ==
    /\ pc = "loop"
    /\ step_num < steps
    /\ step_raises(update_rules, event_handlers, current_state, step_num + 1)
          = NoException
    /\ LET timestep == step(update_rules, event_handlers, current_state,
                            step_num + 1)
       IN  /\ loc_history' = record(loc_history, timestep, record_history)
           /\ current_state' = timestep.state
           /\ trajectory' = Append(trajectory, timestep)
    /\ step_num' = step_num + 1
    /\ calls' = calls \o step_calls(update_rules, event_handlers, current_state,
                                    step_num + 1)
    /\ UNCHANGED <<engine_fields, pc, steps, record_history, result, exc,
                   last_op, ops, registrations>>
    /\ UNCHANGED outside_engine

\* SimulateRaise with self.history assigned on the way out, as a finally would.
SimulateRaise_committing ==
    /\ pc = "loop"
    /\ step_num < steps
    /\ step_raises(update_rules, event_handlers, current_state, step_num + 1)
          # NoException
    /\ exc' = step_raises(update_rules, event_handlers, current_state,
                          step_num + 1)
    /\ step_num' = step_num + 1
    /\ calls' = calls \o step_calls(update_rules, event_handlers, current_state,
                                    step_num + 1)
    /\ pc' = "idle"
    /\ history' = loc_history
    /\ UNCHANGED <<initial_state, update_rules, event_handlers, steps,
                   record_history, loc_history, current_state, result, last_op,
                   ops, registrations, trajectory>>
    /\ UNCHANGED outside_engine

\* One iteration of the loop in which a rule or a handler raises: nothing
\* catches it, so simulate's frame is left and the caller gets the exception.
SimulateRaise ==
    /\ pc = "loop"
    /\ step_num < steps
    /\ step_raises(update_rules, event_handlers, current_state, step_num + 1)
          # NoException
    /\ exc' = step_raises(update_rules, event_handlers, current_state,
                          step_num + 1)
    /\ step_num' = step_num + 1
    /\ calls' = calls \o step_calls(update_rules, event_handlers, current_state,
                                    step_num + 1)
    /\ pc' = "idle"
    /\ UNCHANGED <<engine_fields, steps, record_history, loc_history,
                   current_state, result, last_op, ops, registrations,
                   trajectory>>
    /\ UNCHANGED outside_engine

\* SimulateFinish with the loop one iteration short, as range(1, steps) would be.
SimulateFinish_early ==
    /\ pc = "loop"
    /\ step_num >= steps - 1
    /\ history' = loc_history
    /\ result' = SimulationResult(loc_history, summarize(steps, loc_history))
    /\ pc' = "idle"
    /\ UNCHANGED <<initial_state, update_rules, event_handlers, frame, exc,
                   last_op, ops, registrations, calls, trajectory>>
    /\ UNCHANGED outside_engine

\* The end of simulate (lines 213-230).
SimulateFinish ==
    /\ pc = "loop"
    /\ step_num = steps
    /\ history' = loc_history
    /\ result' = SimulationResult(loc_history, summarize(steps, loc_history))
    /\ pc' = "idle"
    /\ UNCHANGED <<initial_state, update_rules, event_handlers, frame, exc,
                   last_op, ops, registrations, calls, trajectory>>
    /\ UNCHANGED outside_engine

Next ==
    \/ AddUpdateRule
    \/ AddEventHandler
    \/ SimulateStart
    \/ SimulateStep
    \/ SimulateRaise
    \/ SimulateFinish

Spec == Init /\ [][Next]_vars

\* simulate is one synchronous call: once entered, its loop keeps running until
\* it returns or raises, whatever else the caller might do afterwards.
FairSpec ==
    /\ Spec
    /\ WF_vars(SimulateStep)
    /\ WF_vars(SimulateRaise)
    /\ WF_vars(SimulateFinish)

(***************************************************************************)
(* analyze_trends on the history of an engine                              *)
(***************************************************************************)
\* Scores a history may hold: 0, a level, and levels 10% and 20% away from
\* it on either side of the 10% lines.
ScoreValues == {0, 9, 10, 11, 12}
ScoreSequences == UNION {[1..n -> ScoreValues] : n \in 0..MaxRecords}
\* The record of step k with a given score, as far as analyze_trends reads it.
ScoredStep(k, score) ==
    [step |-> k, intelligence |-> [score |-> score],
     events |-> IF k = 0 THEN <<"Simulation started">> ELSE <<>>]

\* An engine whose runs have left it some history, or none yet.
TrendInit ==
    /\ \E inputs \in InitialInputs :
          initial_state = SystemState(0, inputs, "scenario")
    /\ update_rules = <<>>
    /\ event_handlers = <<>>
    /\ \E s \in ScoreSequences :
          history = [i \in DOMAIN s |-> ScoredStep(i - 1, s[i])]
    /\ pc = "idle"
    /\ steps = 0
    /\ record_history = TRUE
    /\ loc_history = <<>>
    /\ current_state = initial_state
    /\ step_num = 0
    /\ result = NoResult
    /\ exc = NoException
    /\ last_op = "none"
    /\ ops = 0
    /\ registrations = <<>>
    /\ calls = <<>>
    /\ trajectory = <<>>
    /\ RegistryCreated
    /\ reg_log = <<>>
    /\ callers = [t \in Callers |-> Returned]
    /\ NothingElseRuns

\* A call of analyze_trends().
AnalyzeTrends ==
    /\ pc = "idle"
    /\ ops < MaxOps
    /\ result' = analyze_trends(history)
    /\ exc' = NoException
    /\ last_op' = "analyze_trends"
    /\ ops' = ops + 1
    /\ UNCHANGED <<engine_fields, pc, frame, registrations, calls, trajectory>>
    /\ UNCHANGED outside_engine

TrendNext == AnalyzeTrends

TrendSpec == TrendInit /\ [][TrendNext]_vars

(***************************************************************************)
(* Single calls of the library: compute_intelligence on any values, and    *)
(* one step of an engine that has one decay or linear_growth rule          *)
(***************************************************************************)
\* Values a caller passes for a factor.
FloatValues == {Num(0), Num(Half), Num(Unit), Num(2 * Unit), Num(0 - 2 * Unit),
                NaN, PosInf, NegInf, None}
\* compute_intelligence calls: X, E_n and F_n vary, the rest is 0.5 or 1.0.
ScoreCalls ==
    {[fn |-> "compute_intelligence",
      d |-> [A |-> Num(Half), B |-> Num(Unit), C |-> Num(Unit), X |-> x,
             Y |-> Num(Unit), Z |-> Num(Unit), E_n |-> e, F_n |-> f],
      validate |-> v, clamp_to_unit |-> c] :
        x \in FloatValues, e \in {Num(Unit), PosInf, NaN},
        f \in {Num(Unit), NegInf}, v \in BOOLEAN, c \in BOOLEAN}

\* The rules built for a variable, and engines that differ in A, B and C.
VariableRules ==
    {linear_growth(Half, Unit, v) : v \in {"A", "B", "C"}}
      \cup {decay(Half, m, v) : m \in {0, Half}, v \in {"A", "B", "C"}}
RuleInputs ==
    {[A |-> a, B |-> b, C |-> c, X |-> Unit, Y |-> Unit, Z |-> Unit,
      E_n |-> 2 * Unit, F_n |-> Unit] :
        a \in {Unit, Half}, b \in {0, Half, Unit}, c \in {0, Unit}}
\* TimeSphere(inputs), add_update_rule(variable, rule), step().
StepCalls ==
    {[fn |-> "step", rule |-> r, variable |-> v, inputs |-> i] :
        r \in VariableRules, v \in {"A", "B", "C"}, i \in RuleInputs}

\* The caller picks the call and its arguments.
PickCall ==
    /\ call = NoCall
    /\ call' \in ScoreCalls \cup StepCalls
    /\ UNCHANGED <<engine_vars, registry_vars, reg_log, callers, ret, mcp_vars>>

ComputeIntelligence ==
    /\ call # NoCall /\ call.fn = "compute_intelligence"
    /\ ret = NoReturn
    /\ ret' = compute_intelligence_of(call.d, call.validate, call.clamp_to_unit)
    /\ UNCHANGED <<engine_vars, registry_vars, reg_log, callers, call, mcp_vars>>

StepWithRule ==
    /\ call # NoCall /\ call.fn = "step"
    /\ ret = NoReturn
    /\ ret' = step(add_update_rule(<<>>, call.variable, call.rule).rules, <<>>,
                   SystemState(0, call.inputs, "scenario"), 1)
    /\ UNCHANGED <<engine_vars, registry_vars, reg_log, callers, call, mcp_vars>>

FnNext ==
    \/ PickCall
    \/ ComputeIntelligence
    \/ StepWithRule

FnSpec == Init /\ [][FnNext]_vars

(***************************************************************************)
(* mcp/server.py: the loop of serve() over the lines of stdin              *)
(***************************************************************************)
\* A request id, and the lines serve() can be given: a blank line, a line
\* json.loads rejects, a line that is JSON but no object (a list, a number,
\* null), and a JSON object.  An object whose id is None has no "id" key
\* or "id": null; its params is "none" when the key is absent, "bad" when
\* the handler of its method rejects it, "good" otherwise.
Id(n) == [k |-> "id", v |-> n]
RequestIds == {None, Id(1), Id(2)}
BlankLine == [kind |-> "blank"]
InvalidLine == [kind |-> "invalid"]
NonObjectLine == [kind |-> "nonobject"]
Requests ==
    {[method |-> mt, params |-> "none"] :
        mt \in {"initialize", "tools/list", "resources/list", "bogus"}}
      \cup {[method |-> mt, params |-> pa] :
              mt \in {"tools/call", "resources/read"},
              pa \in {"none", "bad", "good"}}
ObjectLines ==
    {[kind |-> "object", id |-> i, method |-> rq.method, params |-> rq.params] :
        i \in RequestIds, rq \in Requests}
Lines == {BlankLine, InvalidLine, NonObjectLine} \cup ObjectLines

\* What a call returns, or the fault it raises.
Result(of) == [fault |-> "none", result |-> of]
Raise(type, msg) == [fault |-> type, msg |-> msg]

\* Unknown tool, a missing argument, or arguments compute_intelligence
\* rejects: a fault; otherwise the score as content.
_handle_tools_call(params) ==
    IF params = "bad" THEN Raise("ValueError", "Unknown tool or bad arguments")
    ELSE Result("content")

_read_resource(params) ==
    IF params = "bad" THEN Raise("ValueError", "Unknown resource uri")
    ELSE Result("contents")

_dispatch(method, params) ==
    IF method = "initialize" THEN Result("initialize")
    ELSE IF method = "tools/list" THEN Result("tools")
    ELSE IF method = "tools/call"
    THEN IF params = "none"
         THEN Raise("ValueError", "Missing params for tools/call")
         ELSE _handle_tools_call(params)
    ELSE IF method = "resources/list" THEN Result("resources")
    ELSE IF method = "resources/read"
    THEN IF params = "none"
         THEN Raise("ValueError", "Missing uri for resources/read")
         ELSE _read_resource(params)
    ELSE Raise("ValueError", "Unknown method")

\* The two responses: MCPResponse(id, result=...) and _error_response.
MCPResponse(id, res) == [id |-> id, kind |-> "result", body |-> res]
_error_response(request_id, error) ==
    [id |-> request_id, kind |-> "error", body |-> error.msg]

\* The local variable payload once json.loads has returned.
Bound(value) == [bound |-> TRUE, value |-> value]

\* The except branch of serve: payload.get("id") if "payload" in locals()
\* else None.  payload is whatever the last successful json.loads left;
\* get on a value that is no dict raises out of the handler.
except_branch(pl, error) ==
    IF ~pl.bound
    THEN [escapes |-> FALSE, payload |-> pl,
          response |-> _error_response(None, error)]
    ELSE IF pl.value.kind = "object"
    THEN [escapes |-> FALSE, payload |-> pl,
          response |-> _error_response(pl.value.id, error)]
    ELSE [escapes |-> TRUE, payload |-> pl]

\* The body of serve's loop for one non-blank line, entered with payload pl.
serve_line(line, pl) ==
    IF line.kind = "invalid"
    THEN except_branch(pl, Raise("JSONDecodeError", "Expecting value"))
    ELSE IF line.kind = "nonobject"
    THEN except_branch(Bound(line),
                       Raise("AttributeError", "object has no attribute get"))
    ELSE LET out == _dispatch(line.method, line.params)
         IN  IF out.fault = "none"
             THEN [escapes |-> FALSE, payload |-> Bound(line),
                   response |-> MCPResponse(line.id, out.result)]
             ELSE except_branch(Bound(line), out)

\* serve() is called on a stream.
ServeStart ==
    /\ server = "off"
    /\ server' = "running"
    /\ UNCHANGED <<stdin, stdout, line_no, payload>>
    /\ UNCHANGED <<engine_vars, registry_vars, reg_log, callers, fn_vars>>

\* The next line is blank: continue.
ServeBlank ==
    /\ server = "running"
    /\ line_no < MaxLines
    /\ stdin' = Append(stdin, BlankLine)
    /\ line_no' = line_no + 1
    /\ UNCHANGED <<stdout, payload, server>>
    /\ UNCHANGED <<engine_vars, registry_vars, reg_log, callers, fn_vars>>

\* The next line is not blank and the loop body writes its response.
ServeLine ==
    /\ server = "running"
    /\ line_no < MaxLines
    /\ \E line \in Lines \ {BlankLine} :
          LET r == serve_line(line, payload)
          IN  /\ ~r.escapes
              /\ stdin' = Append(stdin, line)
              /\ line_no' = line_no + 1
              /\ payload' = r.payload
              /\ stdout' = Append(stdout, r.response)
    /\ UNCHANGED server
    /\ UNCHANGED <<engine_vars, registry_vars, reg_log, callers, fn_vars>>

\* The next line is not blank and a fault leaves the loop body: serve ends
\* with it.
ServeCrash ==
    /\ server = "running"
    /\ line_no < MaxLines
    /\ \E line \in Lines \ {BlankLine} :
          LET r == serve_line(line, payload)
          IN  /\ r.escapes
              /\ stdin' = Append(stdin, line)
              /\ line_no' = line_no + 1
              /\ payload' = r.payload
    /\ server' = "crashed"
    /\ UNCHANGED stdout
    /\ UNCHANGED <<engine_vars, registry_vars, reg_log, callers, fn_vars>>

\* End of input: the for loop ends and serve returns.
ServeEnd ==
    /\ server = "running"
    /\ server' = "ended"
    /\ UNCHANGED <<stdin, stdout, line_no, payload>>
    /\ UNCHANGED <<engine_vars, registry_vars, reg_log, callers, fn_vars>>

McpNext ==
    \/ ServeStart
    \/ ServeBlank
    \/ ServeLine
    \/ ServeCrash
    \/ ServeEnd

McpSpec == Init /\ [][McpNext]_vars

(***************************************************************************)
(* The registry under one caller                                           *)
(***************************************************************************)
\* A call of the registry that came back with the registry as r: what it left
\* behind, and the entry in the log of calls.
RegistryCall(op, arg, r) ==
    /\ Len(reg_log) < MaxRegOps
    /\ extensions' = r.extensions
    /\ extensions_by_type' = r.extensions_by_type
    /\ enabled' = r.enabled
    /\ initialized' = r.initialized
    /\ reg_log' = Append(reg_log, [op |-> op, arg |-> arg, exc |-> r.exc])
    /\ UNCHANGED <<outside_registry, callers>>

\* An object no call has been given yet.
Fresh(x) ==
    /\ initialized[x] = 0
    /\ \A i \in DOMAIN reg_log : reg_log[i].arg # x

Register ==
    \E x \in Instances : RegistryCall("register", x, register(Registry, x))
LoadExtension ==
    \E x \in Instances :
        /\ Fresh(x)
        /\ RegistryCall("load_extension", x, load_extension(Registry, x))
Unregister ==
    \E name \in Names :
        RegistryCall("unregister", name, unregister(Registry, name))
Enable ==
    \E name \in Names : RegistryCall("enable", name, enable(Registry, name))
Disable ==
    \E name \in Names : RegistryCall("disable", name, disable(Registry, name))
Clear == RegistryCall("clear", "none", clear(Registry))

RegNext ==
    \/ Register
    \/ LoadExtension
    \/ Unregister
    \/ Enable
    \/ Disable
    \/ Clear

RegSpec == Init /\ [][RegNext]_vars

(***************************************************************************)
(* The registry under callers that run at the same time.  No method of the *)
(* registry takes a lock, so a caller can be suspended between any two     *)
(* statements; one statement is one step.                                  *)
(***************************************************************************)
\* Caller t moves on to a line of the method it is in.
Goto(t, line) ==
    /\ callers' = [callers EXCEPT ![t].at = line]
    /\ UNCHANGED reg_log
\* The method caller t is in returns, or raises e.
Return(t, e) ==
    /\ callers' = [callers EXCEPT ![t].at = 0, ![t].exc = e, ![t].made = @ + 1]
    /\ reg_log' = Append(reg_log, [op |-> callers[t].op,
                                   arg |-> callers[t].arg, exc |-> e])

\* A caller enters register, unregister, enable or disable.
Enter ==
    \E t \in Callers :
        /\ callers[t].at = 0
        /\ callers[t].made < MaxCallerOps
        /\ \/ \E x \in Instances :
                 callers' = [callers EXCEPT ![t].op = "register", ![t].arg = x,
                                            ![t].at = 33]
           \/ \E name \in Names :
                 callers' = [callers EXCEPT ![t].op = "unregister",
                                            ![t].arg = name, ![t].at = 61]
           \/ \E name \in Names :
                 callers' = [callers EXCEPT ![t].op = "enable",
                                            ![t].arg = name, ![t].at = 129]
           \/ \E name \in Names :
                 callers' = [callers EXCEPT ![t].op = "disable",
                                            ![t].arg = name, ![t].at = 143]
        /\ UNCHANGED <<outside_registry, registry_vars, reg_log>>

\* register, lines 33-37
RegisterTest ==
    \E t \in Callers :
        /\ callers[t].at = 33
        /\ IF Has(extensions, ExtName(callers[t].arg))
           THEN Return(t, DuplicateError) ELSE Goto(t, 40)
        /\ UNCHANGED <<outside_registry, registry_vars>>
\* register, line 40
RegisterByName ==
    \E t \in Callers :
        /\ callers[t].at = 40
        /\ extensions' = DictSet(extensions, ExtName(callers[t].arg),
                                 callers[t].arg)
        /\ Goto(t, 44)
        /\ UNCHANGED <<outside_registry, extensions_by_type, enabled, initialized>>
\* register, lines 43-45
RegisterNewType ==
    \E t \in Callers :
        /\ callers[t].at = 44
        /\ LET cls == ClassOf(callers[t].arg)
           IN  extensions_by_type' =
                  IF cls \in DOMAIN extensions_by_type THEN extensions_by_type
                  ELSE [c \in DOMAIN extensions_by_type \cup {cls} |->
                          IF c = cls THEN <<>> ELSE extensions_by_type[c]]
        /\ Goto(t, 46)
        /\ UNCHANGED <<outside_registry, extensions, enabled, initialized>>
\* register, line 46: the list of the class may be gone again by now.
RegisterByType ==
    \E t \in Callers :
        /\ callers[t].at = 46
        /\ LET cls == ClassOf(callers[t].arg)
           IN  IF cls \in DOMAIN extensions_by_type
               THEN /\ extensions_by_type' =
                          TypeAppend(extensions_by_type, cls, callers[t].arg)
                    /\ Goto(t, 49)
               ELSE /\ Return(t, MissingKey)
                    /\ UNCHANGED extensions_by_type
        /\ UNCHANGED <<outside_registry, extensions, enabled, initialized>>
\* register, line 49
RegisterInitialize ==
    \E t \in Callers :
        /\ callers[t].at = 49
        /\ LET r == initialize(Registry, callers[t].arg)
           IN  /\ initialized' = r.initialized
               /\ Return(t, r.exc)
        /\ UNCHANGED <<outside_registry, extensions, extensions_by_type, enabled>>

\* unregister, lines 61-62
UnregisterTest ==
    \E t \in Callers :
        /\ callers[t].at = 61
        /\ IF Has(extensions, callers[t].arg)
           THEN Goto(t, 64) ELSE Return(t, NotRegistered(callers[t].arg))
        /\ UNCHANGED <<outside_registry, registry_vars>>
\* unregister, lines 64-65: the name may be gone again by now.
UnregisterLookup ==
    \E t \in Callers :
        /\ callers[t].at = 64
        /\ IF Has(extensions, callers[t].arg)
           THEN /\ callers' = [callers EXCEPT
                                 ![t].extension = Lookup(extensions, callers[t].arg),
                                 ![t].at = 68]
                /\ UNCHANGED reg_log
           ELSE Return(t, MissingKey)
        /\ UNCHANGED <<outside_registry, registry_vars>>
\* unregister, line 68
UnregisterTypeTest ==
    \E t \in Callers :
        /\ callers[t].at = 68
        /\ IF ClassOf(callers[t].extension) \in DOMAIN extensions_by_type
           THEN Goto(t, 69) ELSE Goto(t, 74)
        /\ UNCHANGED <<outside_registry, registry_vars>>
\* unregister, line 69: list.remove raises when the object is not in the list.
UnregisterRemove ==
    \E t \in Callers :
        /\ callers[t].at = 69
        /\ LET x == callers[t].extension
               cls == ClassOf(x)
           IN  IF cls \notin DOMAIN extensions_by_type
               THEN Return(t, MissingKey) /\ UNCHANGED extensions_by_type
               ELSE IF x \notin {extensions_by_type[cls][i] :
                                    i \in DOMAIN extensions_by_type[cls]}
               THEN Return(t, NotInList) /\ UNCHANGED extensions_by_type
               ELSE /\ extensions_by_type' =
                          [extensions_by_type EXCEPT
                              ![cls] = ListRemove(@, x)]
                    /\ Goto(t, 70)
        /\ UNCHANGED <<outside_registry, extensions, enabled, initialized>>
\* unregister, lines 70-71
UnregisterPrune ==
    \E t \in Callers :
        /\ callers[t].at = 70
        /\ LET cls == ClassOf(callers[t].extension)
           IN  IF cls \notin DOMAIN extensions_by_type
               THEN Return(t, MissingKey) /\ UNCHANGED extensions_by_type
               ELSE /\ extensions_by_type' =
                          IF extensions_by_type[cls] = <<>>
                          THEN [c \in DOMAIN extensions_by_type \ {cls} |->
                                  extensions_by_type[c]]
                          ELSE extensions_by_type
                    /\ Goto(t, 74)
        /\ UNCHANGED <<outside_registry, extensions, enabled, initialized>>
\* unregister, line 74
UnregisterDelete ==
    \E t \in Callers :
        /\ callers[t].at = 74
        /\ IF Has(extensions, callers[t].arg)
           THEN /\ extensions' = DictDel(extensions, callers[t].arg)
                /\ Return(t, NoException)
           ELSE /\ Return(t, MissingKey)
                /\ UNCHANGED extensions
        /\ UNCHANGED <<outside_registry, extensions_by_type, enabled, initialized>>

\* enable, lines 129-130, and disable, lines 143-144
ToggleTest ==
    \E t \in Callers :
        /\ callers[t].at \in {129, 143}
        /\ IF Has(extensions, callers[t].arg)
           THEN Goto(t, callers[t].at + 2) ELSE Return(t, NotRegistered(callers[t].arg))
        /\ UNCHANGED <<outside_registry, registry_vars>>
\* enable, line 131, and disable, line 145
ToggleSet ==
    \E t \in Callers :
        /\ callers[t].at \in {131, 145}
        /\ IF Has(extensions, callers[t].arg)
           THEN /\ enabled' = [enabled EXCEPT
                                 ![Lookup(extensions, callers[t].arg)] =
                                     (callers[t].at = 131)]
                /\ Return(t, NoException)
           ELSE /\ Return(t, MissingKey)
                /\ UNCHANGED enabled
        /\ UNCHANGED <<outside_registry, extensions, extensions_by_type, initialized>>

ConcNext ==
    \/ Enter
    \/ RegisterTest
    \/ RegisterByName
    \/ RegisterNewType
    \/ RegisterByType
    \/ RegisterInitialize
    \/ UnregisterTest
    \/ UnregisterLookup
    \/ UnregisterTypeTest
    \/ UnregisterRemove
    \/ UnregisterPrune
    \/ UnregisterDelete
    \/ ToggleTest
    \/ ToggleSet

ConcSpec == Init /\ [][ConcNext]_vars

(***************************************************************************)
(* Properties of a run                                                     *)
(***************************************************************************)
\* simulate is the last call, it returned, and nothing was raised.
Completed == pc = "idle" /\ last_op = "simulate" /\ exc = NoException
\* simulate is the last call and it raised to the caller.
Aborted == last_op = "simulate" /\ exc # NoException
\* The variables that have a rule bound.
Ruled == {update_rules[i].var : i \in DOMAIN update_rules}
\* The steps 1..k the current run has finished.
StepsDone == 1..(Len(trajectory) - 1)

\* C1: a completed simulate(N) with full history returns exactly N+1 records,
\* with step indices 0, 1, ..., N in that order; they are every record the run
\* produced, and N = 0 gives the initial record alone.
C1_StepIndices ==
    (Completed /\ record_history) =>
        /\ Len(result.steps) = steps + 1
        /\ \A i \in DOMAIN result.steps :
              /\ result.steps[i].step = i - 1
              /\ result.steps[i].state.step = i - 1
        /\ result.steps = trajectory
        /\ history = result.steps

C1_Witness ==
    /\ Completed /\ record_history
    /\ steps >= 2
    /\ Len(result.steps) = steps + 1
    /\ result.steps[steps + 1].step = steps

\* C2: in step k every variable with a rule gets that rule's value on the
\* State of step k-1 and the index k; every rule call of step k is given that
\* same State, whatever the other rules of the step return and in whatever
\* order the rules were registered.
C2_RulesSeePreviousState ==
    last_op = "simulate" =>
        /\ \A k \in StepsDone : \A i \in DOMAIN update_rules :
              trajectory[k + 1].state.inputs[update_rules[i].var]
                 = EvalRule(update_rules[i].rule, trajectory[k].state, k)
        /\ \A j \in DOMAIN calls :
              calls[j].what = "rule" =>
                 calls[j].state = trajectory[calls[j].step].state

\* A := min(1, B + 0.5) and B := min(1, A + 0.5) from A = 0, B = 0.5: B stays
\* 0.5, computed from the old A; it would be 1 computed from the new A.
C2_Witness ==
    /\ last_op = "simulate"
    /\ Len(trajectory) >= 2
    /\ update_rules = <<Binding("A", linear_growth(Half, Unit, "B")),
                        Binding("B", linear_growth(Half, Unit, "A"))>>
    /\ trajectory[1].state.inputs["A"] = 0
    /\ trajectory[2].state.inputs["A"] = Unit
    /\ trajectory[2].state.inputs["B"] = Half

\* Equality of two quotients, and of two summaries as numbers.
RatEq(p, q) == p.num * q.den = q.num * p.den
SameSummary(s, t) ==
    /\ s.total_steps = t.total_steps
    /\ s.initial_intelligence = t.initial_intelligence
    /\ s.final_intelligence = t.final_intelligence
    /\ s.max_intelligence = t.max_intelligence
    /\ s.min_intelligence = t.min_intelligence
    /\ RatEq(s.avg_intelligence, t.avg_intelligence)
    /\ s.growth_rate.kind = t.growth_rate.kind
    /\ RatEq(s.growth_rate, t.growth_rate)

\* C3: the summary of simulate(N, record_history=False) is the summary of the
\* full trajectory, which is what simulate(N, record_history=True) reports
\* (by C1 its history is the trajectory); final_intelligence is the score of
\* step N.
C3_SummaryIgnoresRetention ==
    (Completed /\ ~record_history) =>
        /\ SameSummary(result.summary, summarize(steps, trajectory))
        /\ result.summary.final_intelligence
              = trajectory[steps + 1].intelligence.score

\* C4: a variable with no rule has its initial value in every record of a
\* run; with no rule at all every record has the initial Inputs and the score
\* of step 0.
C4_UnruledVariablesKeepValue ==
    last_op = "simulate" =>
        /\ \A i \in DOMAIN trajectory : \A f \in Fields \ Ruled :
              trajectory[i].state.inputs[f] = initial_state.inputs[f]
        /\ update_rules = <<>> =>
              \A i \in DOMAIN trajectory :
                 /\ trajectory[i].state.inputs = initial_state.inputs
                 /\ trajectory[i].intelligence.score
                       = trajectory[1].intelligence.score
        /\ \A i \in DOMAIN result.steps : \A f \in Fields \ Ruled :
              result.steps[i].state.inputs[f] = initial_state.inputs[f]

C4_Witness ==
    /\ Completed /\ record_history
    /\ Ruled = {"B"}
    /\ steps >= 2
    /\ result.steps[steps + 1].state.inputs["B"] # initial_state.inputs["B"]
    /\ result.steps[steps + 1].state.inputs["A"] = initial_state.inputs["A"]

\* C5: when a rule or a handler raises in step k the run is all or nothing:
\* the caller gets the exception and no SimulationResult, simulate is off the
\* stack so no later step runs (nothing was called for a step after k and no
\* record of step k or later was produced), and the raise leaves self.history
\* as it was.
C5_AllOrNothing ==
    /\ [](Aborted =>
            /\ pc = "idle"
            /\ result = NoResult
            /\ exc \in {RuleException, HandlerException}
            /\ \A j \in DOMAIN calls : calls[j].step <= step_num
            /\ \A i \in DOMAIN trajectory : trajectory[i].step < step_num)
    /\ [][(last_op' = "simulate" /\ exc' # NoException) => history' = history]_vars

\* A run that raises in step 2 after an earlier run completed with 3 records.
C5_Witness ==
    /\ Aborted
    /\ step_num = 2
    /\ Len(loc_history) = 2
    /\ Len(history) = 3

\* The exception the caller of simulate gets carries the step it was raised in.
C6_Original ==
    Aborted => ("step" \in DOMAIN exc /\ exc.step = step_num)

\* C6 (amended): an exception raised inside a rule or a handler during step k
\* aborts the run at once and reaches the caller as it was raised: the last
\* call of the run is the call of step k that raised, no call before it
\* raised, and the exception is the raiser's own, with nothing added to it.
C6_PropagatesUnchanged ==
    Aborted =>
        /\ pc = "idle"
        /\ calls # <<>>
        /\ LET c == calls[Len(calls)]
           IN  /\ c.step = step_num
               /\ \/ /\ c.what = "rule"
                     /\ RuleRaises(update_rules[c.idx].rule, c.state, c.step)
                     /\ exc = RuleException
                  \/ /\ c.what = "handler"
                     /\ HandlerRaises(event_handlers[c.idx], c.state, c.step)
                     /\ exc = HandlerException
        /\ \A j \in 1..(Len(calls) - 1) :
              IF calls[j].what = "rule"
              THEN ~RuleRaises(update_rules[calls[j].idx].rule, calls[j].state,
                               calls[j].step)
              ELSE ~HandlerRaises(event_handlers[calls[j].idx], calls[j].state,
                                  calls[j].step)
        /\ DOMAIN exc = DOMAIN RuleException

\* A handler raises in step 2, after the rule call of that step.
C6_Witness ==
    /\ Aborted
    /\ exc = HandlerException
    /\ step_num = 2
    /\ Len(update_rules) = 1
    /\ calls[Len(calls)].what = "handler"

\* The handler calls of step k, in the order they were made.
IsHandlerCall(c) == c.what = "handler"
HandlerCallsOf(k) ==
    LET made == SelectSeq(calls, IsHandlerCall)
        idxs == {j \in DOMAIN made : made[j].step = k}
    IN  [n \in 1..Cardinality(idxs) |->
            made[CHOOSE j \in idxs : Cardinality({m \in idxs : m < j}) = n - 1]]

\* C7: in every finished step k >= 1 each registered handler is called once,
\* in registration order, on the new State of step k, after all rule calls of
\* that step; the step's events are the non-empty results in that order.
C7_HandlersInOrder ==
    last_op = "simulate" =>
        /\ \A k \in StepsDone :
              LET ts == trajectory[k + 1]
                  hc == HandlerCallsOf(k)
                  results == [i \in DOMAIN event_handlers |->
                                EvalHandler(event_handlers[i], ts.state, k)]
              IN  /\ Len(hc) = Len(event_handlers)
                  /\ \A i \in DOMAIN hc : hc[i].idx = i /\ hc[i].state = ts.state
                  /\ ts.events = SelectSeq(results, Truthy)
        /\ \A a, b \in DOMAIN calls :
              (calls[a].step = calls[b].step /\ calls[a].what = "rule"
                  /\ calls[b].what = "handler") => a < b

\* Two registered handlers both report in one step, in registration order.
C7_Witness ==
    /\ last_op = "simulate"
    /\ \E k \in StepsDone :
          /\ Len(trajectory[k + 1].events) = 2
          /\ trajectory[k + 1].events[1] # trajectory[k + 1].events[2]
    /\ Len(event_handlers) = 2

\* C8: the record of step 0 is in every run's history, once and first, made
\* before any rule or handler is called: it holds the engine's initial state
\* with its Inputs, the formula's score of them, and the start marker as its
\* only event.
C8_StepZero ==
    last_op = "simulate" =>
        /\ loc_history # <<>>
        /\ LET r0 == loc_history[1]
               ci == compute_intelligence(to_dict(initial_state.inputs))
           IN  /\ r0.step = 0
               /\ r0.state = initial_state
               /\ r0.intelligence = IntelligenceSnapshot(0, ci.score, ci.components)
               /\ r0.events = <<"Simulation started">>
               /\ Completed => (result.steps[1] = r0 /\ history[1] = r0)
        /\ Cardinality({i \in DOMAIN loc_history : loc_history[i].step = 0}) = 1
        /\ \A j \in DOMAIN calls : calls[j].step >= 1
        /\ step_num = 0 => (calls = <<>> /\ Len(loc_history) = 1)

\* A run whose handler reports on a state equal to the initial one in step 1.
C8_Witness ==
    /\ Completed
    /\ steps >= 1
    /\ threshold(Half) \in {event_handlers[i] : i \in DOMAIN event_handlers}
    /\ initial_state.inputs["A"] = Half
    /\ Len(result.steps) >= 2
    /\ result.steps[2].events # <<>>

\* The last add_update_rule call made with variable v, 0 when there is none.
LastRegistration(v) ==
    LET made == {i \in DOMAIN registrations : registrations[i].var = v}
    IN  IF made = {} THEN 0 ELSE CHOOSE i \in made : \A j \in made : j <= i

\* C9: after any add_update_rule calls a variable has at most one rule bound,
\* the one of the latest call for it (none when it was never registered), and
\* that is the rule a run applies to it.
C9_LastRegistrationWins ==
    /\ \A i, j \in DOMAIN update_rules :
          i # j => update_rules[i].var # update_rules[j].var
    /\ \A v \in valid_vars :
          IF LastRegistration(v) = 0 THEN v \notin Ruled
          ELSE /\ registrations[LastRegistration(v)]
                     \in {update_rules[i] : i \in DOMAIN update_rules}
               /\ last_op = "simulate" =>
                     \A k \in StepsDone :
                        trajectory[k + 1].state.inputs[v]
                           = EvalRule(registrations[LastRegistration(v)].rule,
                                      trajectory[k].state, k)

\* A run after two different rules were registered for A.
C9_Witness ==
    /\ Completed
    /\ steps >= 1
    /\ Len(registrations) = 2
    /\ registrations[1].var = "A" /\ registrations[2].var = "A"
    /\ registrations[1].rule = fibonacci_rule
    /\ registrations[2].rule = linear_growth(Half, Unit, "A")
    /\ trajectory[2].state.inputs["A"] = Half

\* C10: add_update_rule with a name outside valid_vars raises at the call and
\* leaves the bindings as they were; no binding and no rule call of a run is
\* ever for an unknown variable, and what a run raises is never that fault.
C10_UnknownVariableRejected ==
    /\ [](/\ Ruled \subseteq valid_vars
          /\ \A j \in DOMAIN calls :
                calls[j].what = "rule" => calls[j].name \in valid_vars
          /\ Aborted => exc # NamingException
          /\ last_op = "add_update_rule" =>
                (exc = NamingException
                    <=> registrations[Len(registrations)].var \notin valid_vars))
    /\ [][(last_op' = "add_update_rule" /\ ops' = ops + 1
              /\ registrations'[Len(registrations')].var \notin valid_vars)
            => (update_rules' = update_rules /\ exc' = NamingException)]_vars

\* The call for Q was refused while a rule was bound.
C10_Witness ==
    /\ last_op = "add_update_rule"
    /\ exc = NamingException
    /\ registrations[Len(registrations)].var = "Q"
    /\ update_rules # <<>>

\* No registered rule or handler is one that raises.
NoneRaises ==
    /\ \A i \in DOMAIN update_rules : update_rules[i].rule.kind # "failing"
    /\ \A i \in DOMAIN event_handlers : event_handlers[i].kind # "failing"
\* The positions in the call log of the calls of one rule or handler at step k.
CallsAt(what, i, k) ==
    {j \in DOMAIN calls :
        calls[j].what = what /\ calls[j].idx = i /\ calls[j].step = k}

\* C11: every run of simulate(N) comes to an end, and only a rule or handler
\* that raises makes it end early: a run whose rules and handlers all return
\* ends after step N, with every registered rule and every registered handler
\* called exactly once for each k in 1..N and for no other k, the calls in
\* increasing k, and this is so with and without record_history.
C11_RunsAllSteps ==
    /\ [](pc = "loop" => step_num <= steps)
    /\ [](Completed =>
            /\ step_num = steps
            /\ Len(trajectory) = steps + 1
            /\ \A k \in 1..steps :
                  /\ \A i \in DOMAIN update_rules :
                        Cardinality(CallsAt("rule", i, k)) = 1
                  /\ \A i \in DOMAIN event_handlers :
                        Cardinality(CallsAt("handler", i, k)) = 1
            /\ \A j \in DOMAIN calls : calls[j].step \in 1..steps
            /\ \A a, b \in DOMAIN calls : a < b => calls[a].step <= calls[b].step)
    /\ [](Aborted => ~NoneRaises)
    /\ (pc = "loop" ~> pc = "idle")

\* A run of three steps without record_history finished with a rule and a
\* handler registered, each called at steps 1, 2 and 3.
C11_Witness ==
    /\ Completed
    /\ ~record_history
    /\ steps = MaxSteps
    /\ update_rules # <<>> /\ event_handlers # <<>>
    /\ Len(calls) = MaxSteps * (Len(update_rules) + Len(event_handlers))

\* The scores of the run's step 0 and of its last step.
InitialScore == trajectory[1].intelligence.score
FinalScore == trajectory[Len(trajectory)].intelligence.score

\* C12: a run whose step-0 score is 0 returns without raising and reports the
\* growth rate as the infinity sentinel; any other completed run reports
\* (final score - initial score) / initial score, the final score being that
\* of step N.
C12_GrowthRate ==
    /\ Aborted => exc \in {RuleException, HandlerException}
    /\ Completed =>
          LET g == result.summary.growth_rate
          IN  IF InitialScore = 0 THEN g.kind = "inf"
              ELSE /\ g.kind = "ratio"
                   /\ g.den = InitialScore
                   /\ g.num = FinalScore - InitialScore

\* C13: simulate(N, record_history=False) with N >= 1 returns steps that hold
\* the record of step 0 and the record of step N.
C13_FirstAndLastKept ==
    (Completed /\ ~record_history /\ steps >= 1) =>
        /\ \E i \in DOMAIN result.steps : result.steps[i].step = 0
        /\ \E i \in DOMAIN result.steps : result.steps[i].step = steps

\* The field bounds on a dictionary of the eight values.
InBounds(d) ==
    /\ \A f \in {"A", "B", "C", "X", "Y"} : 0 <= d[f] /\ d[f] <= Unit
    /\ d["Z"] >= 0
    /\ d["E_n"] >= 0
    /\ d["F_n"] >= 0 - Unit

C26_SnapshotOfOwnState ==
    \A i \in DOMAIN trajectory :
        LET ts == trajectory[i]
            ci == compute_intelligence(to_dict(ts.state.inputs))
        IN  /\ ts.intelligence.score = ci.score
            /\ ts.intelligence.components = ci.components
            /\ ts.step = i - 1
            /\ ts.state.step = ts.step
            /\ ts.intelligence.step = ts.step

\* A run whose score changed between step 1 and step 2, so that the Snapshot
\* of step 2 differs from the one of the State before it.
C26_Witness ==
    /\ Completed
    /\ Len(trajectory) >= 3
    /\ trajectory[3].intelligence.score # trajectory[2].intelligence.score
    /\ trajectory[2].intelligence.score # trajectory[1].intelligence.score

\* The records of steps k..n of a run that starts step k from cur_state.
RECURSIVE RunFrom(_, _, _, _, _)
RunFrom(rules, handlers, cur_state, k, n) ==
    IF k > n THEN <<>>
    ELSE LET ts == step(rules, handlers, cur_state, k)
         IN  <<ts>> \o RunFrom(rules, handlers, ts.state, k + 1, n)
\* What simulate(n, keep) returns on an engine that has never run.
FirstRun(n, keep) ==
    LET all == <<initial_timestep(initial_state)>>
                  \o RunFrom(update_rules, event_handlers, initial_state, 1, n)
        kept == IF keep THEN all ELSE <<all[1]>>
    IN  SimulationResult(kept, summarize(n, kept))

\* C28: simulate leaves the initial state, the rule bindings and the handler
\* list as they are, and every run starts from the initial Inputs at step 0:
\* what a completed simulate(N) returns is what the first run of the engine
\* would return, whatever runs came before, so two equal calls return equal
\* histories and summaries; the stored history is that of the latest run.
C28_RunsRestart ==
    /\ [][(pc = "loop" \/ pc' = "loop")
            => UNCHANGED <<initial_state, update_rules, event_handlers>>]_vars
    /\ [](last_op = "simulate" =>
            /\ trajectory[1] = initial_timestep(initial_state)
            /\ trajectory[1].state.step = 0)
    /\ [](Completed =>
            /\ result = FirstRun(steps, record_history)
            /\ history = result.steps)

\* The third call completed a run of two steps on an engine with a rule and
\* no handler: an earlier call was a simulate too, and the stored history has
\* the records of this run alone.
C28_Witness ==
    /\ Completed
    /\ ops = 3
    /\ Len(registrations) = 1 /\ update_rules # <<>>
    /\ event_handlers = <<>>
    /\ steps = 2 /\ record_history
    /\ Len(history) = 3
    /\ history[3].intelligence.score # history[1].intelligence.score

(***************************************************************************)
(* Properties of the registry                                              *)
(***************************************************************************)
\* The last call made on the registry, once there is one.
LastCall == reg_log[Len(reg_log)]
Registering == {"register", "load_extension"}
\* Where x is: its places in the index by name, and in the index by type.
PlacesByName(x) == {i \in DOMAIN extensions : extensions[i].ext = x}
PlacesByType(x) ==
    UNION {{<<c, i>> : i \in {j \in DOMAIN extensions_by_type[c] :
                                  extensions_by_type[c][j] = x}} :
           c \in DOMAIN extensions_by_type}

\* C15: register(e) while the name of e is registered raises the fault for a
\* duplicate name and changes nothing: get(name) is still the original, the
\* index by type is as it was, and initialize() of e did not run.
C15_DuplicateRejected ==
    [][(/\ reg_log' # reg_log
        /\ LastCall'.op \in Registering
        /\ Has(extensions, ExtName(LastCall'.arg)))
       => (/\ LastCall'.exc = DuplicateError
           /\ get(Registry', ExtName(LastCall'.arg))
                 = get(Registry, ExtName(LastCall'.arg))
           /\ extensions' = extensions
           /\ extensions_by_type' = extensions_by_type
           /\ initialized' = initialized
           /\ enabled' = enabled)]_vars

\* register(h1) was refused while m1 holds the name of h1: m1 is what get
\* returns, and h1 is in neither index and was never initialized.
C15_Witness ==
    /\ reg_log # <<>>
    /\ LastCall = [op |-> "register", arg |-> "h1", exc |-> DuplicateError]
    /\ get(Registry, ExtName("h1")) = "m1"
    /\ PlacesByName("h1") = {} /\ PlacesByType("h1") = {}
    /\ initialized["h1"] = 0

\* No caller is inside a method of the registry.
Quiescent == \A t \in Callers : callers[t].at = 0
\* Every object is as often in the index by type as in the index by name.
IndicesAgree ==
    \A x \in Instances :
        Cardinality(PlacesByType(x)) = Cardinality(PlacesByName(x))
\* The register calls that accepted an object of a name, and the unregister
\* calls that removed the name.
Accepted(name) ==
    {i \in DOMAIN reg_log :
        /\ reg_log[i].op = "register"
        /\ ExtName(reg_log[i].arg) = name
        /\ reg_log[i].exc # DuplicateError}
Removed(name) ==
    {i \in DOMAIN reg_log :
        reg_log[i] = [op |-> "unregister", arg |-> name, exc |-> NoException]}

\* C16: whatever the interleaving of the callers' register, unregister, enable
\* and disable calls, once they have returned the two indices agree, and of
\* the register calls for one name only one at a time was accepted: the others
\* got the fault for a duplicate name, and the name's extension is once in the
\* index by type.
C16_Serialized ==
    Quiescent =>
        /\ IndicesAgree
        /\ \A name \in Names :
              Cardinality(Accepted(name)) - Cardinality(Removed(name))
                 = IF Has(extensions, name) THEN 1 ELSE 0

\* C17: initialize() runs before the extension is stored, so a register call
\* whose hook raised has registered nothing: the extension is in neither index.
C17_HookBeforeStore ==
    (reg_log # <<>> /\ LastCall.op \in Registering /\ LastCall.exc = InitError)
        => (PlacesByName(LastCall.arg) = {} /\ PlacesByType(LastCall.arg) = {})

\* The extensions in the index by name, and the sequence s as a set.
Registered == {extensions[i].ext : i \in DOMAIN extensions}
Range(s) == {s[i] : i \in DOMAIN s}

\* C18: get_by_type(K) is exactly the registered extensions that are instances
\* of K, those of concrete subclasses of K included, enabled or not, each once.
C18_ByKind ==
    \A K \in Kinds \cup Classes :
        LET found == get_by_type(Registry, K)
        IN  /\ Range(found) = {x \in Registered : IsSubclass(ClassOf(x), K)}
            /\ Len(found) = Cardinality(Range(found))

\* The sequence s without x, the order of the others kept.
Without(s, x) == LET Other(y) == y # x IN SelectSeq(s, Other)

\* C19: a successful unregister(name) takes the extension out of both indices
\* (get, list_all, list_enabled and get_by_type no longer give it), leaves
\* every other extension where and as it was, runs no hook and changes no
\* object, and makes register accept that name again.
C19_Unregistered ==
    [][(/\ reg_log' # reg_log
        /\ LastCall'.op = "unregister"
        /\ LastCall'.exc = NoException)
       => LET name == LastCall'.arg
              x == get(Registry, name)
          IN  /\ x \in Instances
              /\ get(Registry', name) = "None"
              /\ list_all(Registry') = Without(list_all(Registry), x)
              /\ list_enabled(Registry') = Without(list_enabled(Registry), x)
              /\ \A K \in Kinds \cup Classes :
                    get_by_type(Registry', K)
                       = Without(get_by_type(Registry, K), x)
              /\ x \notin Range(list_all(Registry'))
              /\ \A n \in Names \ {name} :
                    get(Registry', n) = get(Registry, n)
              /\ initialized' = initialized
              /\ enabled' = enabled
              /\ \A y \in Instances :
                    ExtName(y) = name =>
                       /\ register(Registry', y).exc # DuplicateError
                       /\ get(register(Registry', y), name) = y]_vars

\* alpha was registered, unregistered while beta stayed registered, and then
\* registered again for another object.
C19_Witness ==
    /\ Len(reg_log) = 4
    /\ reg_log[1] = [op |-> "register", arg |-> "m1", exc |-> NoException]
    /\ reg_log[2].op = "register" /\ reg_log[2].arg = "m2"
    /\ reg_log[3] = [op |-> "unregister", arg |-> "alpha", exc |-> NoException]
    /\ reg_log[4] = [op |-> "register", arg |-> "h1", exc |-> NoException]
    /\ list_all(Registry) = <<"m2", "h1">>
    /\ initialized["m1"] = 1

\* The register calls that were given x and got past the test for its name.
Registrations(x) ==
    {i \in DOMAIN reg_log :
        /\ reg_log[i].op \in Registering
        /\ reg_log[i].arg = x
        /\ reg_log[i].exc # DuplicateError}

C21_Original ==
    (reg_log # <<>> /\ LastCall.op \in Registering
        /\ LastCall.exc = NoException)
       => (enabled[LastCall.arg]
              /\ LastCall.arg \in Range(list_enabled(Registry)))

\* C21: register leaves the enabled flag of the extension as it is, so after
\* a successful register(e) a newly built e is enabled and in list_enabled(),
\* while an e that was disabled before it was unregistered comes back
\* disabled.  list_enabled() is list_all() without the extensions whose flag
\* is off; only disable(e.name) takes a registered e out of it and only
\* enable(e.name) puts it back, and neither takes e out of list_all().
C21_EnabledByDefault ==
    /\ [](LET IsEnabled(x) == enabled[x]
          IN  list_enabled(Registry) = SelectSeq(list_all(Registry), IsEnabled))
    /\ [](\A x \in Instances : Fresh(x) => enabled[x])
    /\ [][reg_log' # reg_log =>
            /\ LastCall'.op \in Registering => enabled' = enabled
            /\ (LastCall'.op = "load_extension" /\ LastCall'.exc = NoException)
                  => LastCall'.arg \in Range(list_enabled(Registry'))
            /\ (LastCall'.op = "disable" /\ LastCall'.exc = NoException) =>
                  LET x == get(Registry, LastCall'.arg)
                  IN  /\ x \notin Range(list_enabled(Registry'))
                      /\ list_all(Registry') = list_all(Registry)
                      /\ \A y \in Instances \ {x} : enabled'[y] = enabled[y]
            /\ (LastCall'.op = "enable" /\ LastCall'.exc = NoException) =>
                  LET x == get(Registry, LastCall'.arg)
                  IN  /\ x \in Range(list_enabled(Registry'))
                      /\ list_all(Registry') = list_all(Registry)
                      /\ \A y \in Instances \ {x} : enabled'[y] = enabled[y]
            /\ LastCall'.op \notin {"enable", "disable"} => enabled' = enabled
         ]_vars

\* m1 was loaded, disabled, enabled again and disabled once more: it is in
\* list_all() and not in list_enabled().
C21_Witness ==
    /\ Len(reg_log) = 4
    /\ reg_log[1] = [op |-> "load_extension", arg |-> "m1", exc |-> NoException]
    /\ reg_log[2] = [op |-> "disable", arg |-> "alpha", exc |-> NoException]
    /\ reg_log[3] = [op |-> "enable", arg |-> "alpha", exc |-> NoException]
    /\ reg_log[4] = [op |-> "disable", arg |-> "alpha", exc |-> NoException]
    /\ list_all(Registry) = <<"m1">>
    /\ list_enabled(Registry) = <<>>

\* C22: unregister, enable and disable of a name that is not registered raise
\* the lookup fault, which names that key, and change nothing: both indices
\* and the enabled flag of every extension are as before.
C22_LookupFault ==
    [][(/\ reg_log' # reg_log
        /\ LastCall'.op \in {"unregister", "enable", "disable"}
        /\ ~Has(extensions, LastCall'.arg))
       => (/\ LastCall'.exc.type = "KeyError"
           /\ LastCall'.exc = NotRegistered(LastCall'.arg)
           /\ LastCall'.exc.key = LastCall'.arg
           /\ extensions' = extensions
           /\ extensions_by_type' = extensions_by_type
           /\ enabled' = enabled
           /\ initialized' = initialized)]_vars

\* With alpha registered and disabled, unregister, enable and disable of beta
\* were each refused with the fault naming beta.
C22_Witness ==
    /\ Len(reg_log) = 4
    /\ reg_log[1] = [op |-> "register", arg |-> "m1", exc |-> NoException]
    /\ {reg_log[i].op : i \in 2..4} \subseteq {"unregister", "enable", "disable"}
    /\ \A i \in 2..4 :
          reg_log[i].arg = "beta" /\ reg_log[i].exc = NotRegistered("beta")
    /\ reg_log[4].op = "disable"
    /\ list_enabled(Registry) = <<"m1">>

\* C27: after any series of register, unregister, enable, disable and clear
\* calls by one caller, failed ones included, the indices agree: get(name)
\* gives x exactly when x is once in the list of its class, no list is
\* empty, and every extension in a list is in the index by name, under its
\* own class and nowhere else.
C27_IndicesAgree ==
    /\ \A x \in Instances :
          (get(Registry, ExtName(x)) = x)
             <=> Cardinality(PlacesByType(x)) = 1
    /\ \A x \in Instances :
          /\ Cardinality(PlacesByType(x)) <= 1
          /\ \A pl \in PlacesByType(x) : pl[1] = ClassOf(x)
          /\ PlacesByType(x) # {} => x \in Registered
    /\ \A c \in DOMAIN extensions_by_type : extensions_by_type[c] # <<>>
    /\ \A i, j \in DOMAIN extensions :
          extensions[i].name = extensions[j].name => i = j

\* After a clear, m2 was registered with its hook raising, and a register of
\* an object of another name went through: both are in both indices.
C27_Witness ==
    /\ Len(reg_log) = 4
    /\ reg_log[1].op = "register" /\ reg_log[1].exc = NoException
    /\ reg_log[2].op = "clear"
    /\ reg_log[3] = [op |-> "register", arg |-> "m2", exc |-> InitError]
    /\ reg_log[4] = [op |-> "register", arg |-> "h1", exc |-> NoException]
    /\ list_all(Registry) = <<"m2", "h1">>
    /\ DOMAIN extensions_by_type = Classes

(***************************************************************************)
(* Properties of analyze_trends                                            *)
(***************************************************************************)
\* The scores in the history, and the sums of its two parts.
HistoryScores == [i \in DOMAIN history |-> history[i].intelligence.score]
FirstPart == Slice(HistoryScores, 1, Len(history) \div 2)
SecondPart == Slice(HistoryScores, Len(history) \div 2 + 1, Len(history))

\* C23: for a history of n >= 1 scores analyze_trends answers
\* insufficient_data when n < 3; otherwise, with m1 the mean of the first
\* floor(n/2) scores and m2 the mean of the other n - floor(n/2), it answers
\* accelerating_growth iff m2 > 1.1 * m1, declining iff m2 < 0.9 * m1, and
\* stable otherwise, so also when m2 is exactly 1.1 * m1 or 0.9 * m1.
C23_Trend ==
    (last_op = "analyze_trends" /\ history # <<>>) =>
        LET n == Len(history)
            n1 == n \div 2
            n2 == n - n1
            s1 == SumSeq(FirstPart)
            s2 == SumSeq(SecondPart)
        IN  /\ Len(FirstPart) = n1 /\ Len(SecondPart) = n2
            /\ FirstPart \o SecondPart = HistoryScores
            /\ n < 3 <=> result.trend = "insufficient_data"
            /\ n >= 3 =>
                  /\ result.trend = "accelerating_growth"
                        <=> 10 * s2 * n1 > 11 * s1 * n2
                  /\ result.trend = "declining"
                        <=> 10 * s2 * n1 < 9 * s1 * n2
                  /\ result.trend = "stable"
                        <=> (/\ 10 * s2 * n1 <= 11 * s1 * n2
                             /\ 10 * s2 * n1 >= 9 * s1 * n2)

\* Scores 10, 11, 11: the second mean is exactly 10% above the first, and the
\* answer is stable.
C23_Witness ==
    /\ last_op = "analyze_trends"
    /\ HistoryScores = <<10, 11, 11>>
    /\ result.trend = "stable"

(***************************************************************************)
(* Properties of single library calls                                      *)
(***************************************************************************)
\* C24: compute_intelligence with validate on, given a factor that is nan or
\* infinite, raises a TypeError or ValueError that names the first such
\* field, and returns no score.
C24_FiniteRequired ==
    (call # NoCall /\ call.fn = "compute_intelligence" /\ ret # NoReturn
        /\ call.validate /\ FirstFailing(call.d, "finite") # "none")
       => (/\ ret.fault \in {"TypeError", "ValueError"}
           /\ ret.field = FirstFailing(call.d, "finite"))

\* The value the rule of a step call gives for the previous value prev.
RuleValue(rule, prev) ==
    IF rule.kind = "decay"
    THEN Max(rule.min_val, (prev * (Unit - rule.rate)) \div Unit)
    ELSE Min(rule.max_val, Max(0, prev + rule.rate))

\* C25: one step of an engine whose only rule is a decay or linear_growth
\* built for V and registered on V gives V the rule's value of V's own
\* previous value, and leaves every other input, A included, as it was.
C25_OwnVariable ==
    (call # NoCall /\ call.fn = "step" /\ ret # NoReturn
        /\ call.rule.variable = call.variable)
       => (\A f \in Fields :
              ret.state.inputs[f] =
                 IF f = call.variable
                 THEN RuleValue(call.rule, call.inputs[f])
                 ELSE call.inputs[f])

\* decay built for B and registered on B halved B from 1.0 to 0.5 in an
\* engine whose A is 0.5 and stays 0.5.
C25_Witness ==
    /\ call # NoCall /\ call.fn = "step" /\ ret # NoReturn
    /\ call.rule = decay(Half, 0, "B") /\ call.variable = "B"
    /\ call.inputs["A"] = Half /\ call.inputs["B"] = Unit
    /\ ret.state.inputs["B"] = Half /\ ret.state.inputs["A"] = Half

(***************************************************************************)
(* Properties of the MCP server loop                                       *)
(***************************************************************************)
RECURSIVE NonBlank(_)
\* The non-blank lines of an input, in order.
NonBlank(lines) ==
    IF lines = <<>> THEN <<>>
    ELSE IF Head(lines) = BlankLine THEN NonBlank(Tail(lines))
    ELSE <<Head(lines)>> \o NonBlank(Tail(lines))

\* The id the request on a line carries: null for a line that is no
\* JSON object.
IdOf(line) == IF line.kind = "object" THEN line.id ELSE None

\* C29: the id of every response written is the id of the request on the
\* line it answers, and null when that line is not valid JSON or carries no
\* id, whatever lines came before.
C29_OwnId ==
    \A i \in 1..Len(stdout) :
        /\ i <= Len(NonBlank(stdin))
        /\ stdout[i].id = IdOf(NonBlank(stdin)[i])

\* C30: every non-blank line taken has its one response, in input order,
\* an error response for a malformed or failing request, and serve never
\* ends on a fault.
C30_OnePerLine ==
    /\ server # "crashed"
    /\ Len(stdout) = Len(NonBlank(stdin))
    /\ \A i \in 1..Len(stdout) :
          LET line == NonBlank(stdin)[i]
          IN  stdout[i].kind =
                 IF /\ line.kind = "object"
                    /\ _dispatch(line.method, line.params).fault = "none"
                 THEN "result" ELSE "error"

====
